---- MODULE Spec2Model ----
(***************************************************************************)
(* Product controller of the shop backend (productController: getProducts, *)
(* getProductById, deleteProduct, createProduct, updateProduct,            *)
(* createProductReview, getTopProducts) over the Product collection.       *)
(*                                                                         *)
(* Every handler is an async function: it runs atomically between two      *)
(* awaits, and every await is one operation of the document store.  A      *)
(* handler is therefore one action per store operation it awaits; the code *)
(* that follows an await up to the next one (or up to the response)        *)
(* belongs to the action of the operation it waits for next.               *)
(***************************************************************************)
EXTENDS Integers, Sequences, FiniteSets

\* ------------------------------------------------------------------ bounds
MaxIds     == 2      \* products ever created in Spec
MaxUsers   == 2      \* accounts
MaxReq     == 2      \* requests in flight at once in SpecRace
MaxCatalog == 25     \* products of the catalogs SpecRead starts from
MaxPage    == 4      \* largest pageNumber requested

Users == 1..MaxUsers
Reqs  == 1..MaxReq

\* ------------------------------------------------------- optional values
\* A JavaScript value that may be undefined / null: <<>> or <<v>>.
Undefined == <<>>
Some(v)   == <<v>>

\* ----------------------------------------------------------- arithmetic
RECURSIVE GCD(_, _)
GCD(a, b) == IF b = 0 THEN a ELSE GCD(b, a % b)

\* a / b of two small non-negative integers (b > 0), as the exact quotient
\* in lowest terms: two such quotients are the same double iff they are the
\* same fraction.
Quotient(a, b) == LET g == GCD(a, b) IN [num |-> a \div g, den |-> b \div g]

\* Math.ceil(a / b) for a >= 0, b > 0
Ceil(a, b) == (a + b - 1) \div b

\* Number(rating) of the request body's rating
Number(s) == CASE s = "1" -> 1 [] s = "2" -> 2 [] s = "3" -> 3
               [] s = "4" -> 4 [] s = "5" -> 5

\* ObjectId.prototype.toString(): the id in hexadecimal
HexDigit(n) == <<"0","1","2","3","4","5","6","7","8","9","a","b","c","d","e","f">>[n + 1]
IdToString(id) == <<HexDigit((id \div 16) % 16), HexDigit(id % 16)>>

\* req.user of the authenticated account u
UserName(u) == <<"user", u>>
ReqUser(u)  == [_id |-> u, name |-> UserName(u)]

\* ------------------------------------------------------------------ state
VARIABLES
  store,    \* the Product collection, in natural (insertion) order
  nextId,   \* the next ObjectId the driver generates
  pc,       \* pc[r]: the await request r is suspended at
  loc,      \* loc[r]: the local variables of request r's handler
  res,      \* the response sent by the last step, NoRes when it sent none
  acked     \* the <<product id, user>> of every review acknowledged with 201

vars == <<store, nextId, pc, loc, res, acked>>

\* acked is the clients' record of the 'Review added' responses they received
\* for products that are still stored.

\* --------------------------------------------------------------- responses
NoJson == [message |-> "", products |-> <<>>, page |-> 0, pages |-> 0]
NoRes  == [req |-> 0, op |-> "", id |-> 0, user |-> 0,
           status |-> 0, error |-> "", json |-> NoJson]

\* res.status(s).json(body) / res.json(body), of request r (operation op on
\* req.params.id = id by req.user._id = u)
Json(r, op, id, u, s, body) ==
  [req |-> r, op |-> op, id |-> id, user |-> u, status |-> s, error |-> "", json |-> body]
\* res.status(s); throw new Error(msg)
Throw(r, op, id, u, s, msg) ==
  [req |-> r, op |-> op, id |-> id, user |-> u, status |-> s, error |-> msg, json |-> NoJson]

NoLoc == [product |-> <<>>, body |-> <<>>, page |-> 0, keyword |-> <<>>, count |-> 0]

\* ------------------------------------------------------------------ store
\* Product.findById(id): <<doc>> or <<>> (null)
FindById(id) == SelectSeq(store, LAMBDA p : p._id = id)

\* doc.save() of a document read from the store: the whole document is
\* persisted in place; a document removed in the meantime is not re-created.
Save(doc) == [i \in 1..Len(store) |-> IF store[i]._id = doc._id THEN doc ELSE store[i]]

\* doc.save() of a new document
Insert(doc) == Append(store, doc)

\* doc.remove()
Remove(doc) == SelectSeq(store, LAMBDA p : p._id # doc._id)

\* Fields the Product schema fills in when the constructor is not given them
DefaultReviews == <<>>
DefaultRating  == [num |-> 0, den |-> 1]

SampleName == <<"S","a","m","p","l","e"," ","N","a","m","e">>

\* new Product({...}) of createProduct
NewProduct(id, u) ==
  [ _id          |-> id,
    name         |-> Some(SampleName),
    price        |-> Some(0),
    user         |-> u,
    image        |-> Some("/images/sample.jpg"),
    brand        |-> Some("Sample brand"),
    category     |-> Some("Sample category"),
    countInStock |-> Some(0),
    numReviews   |-> 0,
    description  |-> Some("Sample description"),
    reviews      |-> DefaultReviews,
    rating       |-> DefaultRating ]

\* ---------------------------------------------------------------- reviews
RECURSIVE SumRatings(_)
\* product.reviews.reduce((acc, item) => item.rating + acc, 0)
SumRatings(reviews) ==
  IF reviews = <<>> THEN 0
  ELSE SumRatings(SubSeq(reviews, 1, Len(reviews) - 1)) + reviews[Len(reviews)].rating

\* variant: only the first review is compared
AlreadyReviewedFirst(product, user) ==
  /\ product.reviews # <<>>
  /\ IdToString(product.reviews[1].user) = IdToString(user._id)

\* product.reviews.find((r) => r.user.toString() === req.user._id.toString())
AlreadyReviewed(product, user) ==
  \E i \in 1..Len(product.reviews) :
     IdToString(product.reviews[i].user) = IdToString(user._id)

\* variant: numReviews is taken before the push
WithReviewStaleCount(product, user, rating, comment) ==
  LET review  == [name |-> user.name, rating |-> Number(rating),
                  comment |-> comment, user |-> user._id]
      reviews == Append(product.reviews, review)
  IN  [product EXCEPT !.reviews    = reviews,
                      !.numReviews = Len(product.reviews),
                      !.rating     = Quotient(SumRatings(reviews), Len(reviews))]

\* the review object, pushed, and the two derived fields recomputed
WithReview(product, user, rating, comment) ==
  LET review  == [name |-> user.name, rating |-> Number(rating),
                  comment |-> comment, user |-> user._id]
      reviews == Append(product.reviews, review)
  IN  [product EXCEPT !.reviews    = reviews,
                      !.numReviews = Len(reviews),
                      !.rating     = Quotient(SumRatings(reviews), Len(reviews))]

\* ----------------------------------------------------------------- update
\* req.body of updateProduct: every field present or undefined
FullBody ==
  [ name |-> Some(<<"S","h","o","e">>), price |-> Some(10), description |-> Some("leather"),
    image |-> Some("/images/shoe.jpg"), brand |-> Some("Acme"),
    category |-> Some("Footwear"), countInStock |-> Some(3) ]
PartBody ==
  [ name |-> Some(<<"s","h","i","r","t">>), price |-> Undefined, description |-> Undefined,
    image |-> Undefined, brand |-> Undefined,
    category |-> Some("Clothing"), countInStock |-> Undefined ]
NamelessBody ==
  [ name |-> Undefined, price |-> Some(5), description |-> Undefined,
    image |-> Undefined, brand |-> Some("Acme"),
    category |-> Undefined, countInStock |-> Some(1) ]
Bodies == {FullBody, PartBody}

\* variant: the destructured category is assigned as well
WithFieldsAndCategory(product, body) ==
  [product EXCEPT !.name         = body.name,
                  !.price        = body.price,
                  !.description  = body.description,
                  !.image        = body.image,
                  !.brand        = body.brand,
                  !.category     = body.category,
                  !.countInStock = body.countInStock]

\* the six assignments of updateProduct
WithFields(product, body) ==
  [product EXCEPT !.name         = body.name,
                  !.price        = body.price,
                  !.description  = body.description,
                  !.image        = body.image,
                  !.brand        = body.brand,
                  !.countInStock = body.countInStock]

\* ---------------------------------------------------------------- queries
pageSize == 10
topLimit == 3

\* Number(req.query.pageNumber) || 1; the parameter is absent or a number
PageNumbers == {Undefined} \cup {Some(n) : n \in 0..MaxPage}
PageOf(pageNumber) ==
  IF pageNumber = Undefined \/ pageNumber[1] = 0 THEN 1 ELSE pageNumber[1]

\* req.query.keyword: absent, empty, or a string
Keywords ==
  { Undefined, Some(<<>>), Some(<<"S","H">>), Some(<<"s","h","o","e">>),
    Some(<<"s",".">>), Some(<<"x">>) }

\* the filter object: {} (here <<>>) or { name: { $regex: keyword, $options: 'i' } }
KeywordFilter(keyword) ==
  IF keyword # Undefined /\ keyword[1] # <<>> THEN Some(keyword[1]) ELSE <<>>

\* case folding of the 'i' option
Fold(c) ==
  CASE c = "S" -> "s" [] c = "H" -> "h" [] c = "O" -> "o" [] c = "E" -> "e"
    [] c = "N" -> "n" [] c = "A" -> "a" [] c = "T" -> "t" [] OTHER -> c

\* one pattern character against one character of the subject: '.' is the
\* regular-expression wildcard, every other character of the keywords above
\* stands for itself
CharMatches(pc0, c) == IF pc0 = "." THEN TRUE ELSE Fold(pc0) = Fold(c)

\* an unanchored $regex match of pattern in str
RegexTest(pattern, str) ==
  \E i \in 0..(Len(str) - Len(pattern)) :
     \A j \in 1..Len(pattern) : CharMatches(pattern[j], str[i + j])

\* does the document satisfy the filter
Matches(p, filter) ==
  filter = <<>> \/ (p.name # Undefined /\ RegexTest(filter[1], p.name[1]))

\* Product.find(filter), in natural order
Find(filter) == SelectSeq(store, LAMBDA p : Matches(p, filter))

\* Product.count(filter)
Count(filter) == Len(Find(filter))

\* cursor .skip(n) and .limit(n): the store skips first and limits second,
\* in whatever order the query builder was called
Skip(docs, n)  == SubSeq(docs, n + 1, Len(docs))
Limit(docs, n) == SubSeq(docs, 1, IF n < Len(docs) THEN n ELSE Len(docs))
\* variant: limit and skip applied in the order they are written
PageLimitFirst(docs, page) == Skip(Limit(docs, pageSize), pageSize * (page - 1))

Page(docs, page) == Limit(Skip(docs, pageSize * (page - 1)), pageSize)

\* a.rating > b.rating
Greater(a, b) == a.num * b.den > b.num * a.den

\* .sort({ rating: -1 }): descending, equal ratings stay in natural order
InsertDesc(sorted, p) ==
  LET k == Cardinality({i \in 1..Len(sorted) : ~Greater(p.rating, sorted[i].rating)})
  IN  SubSeq(sorted, 1, k) \o <<p>> \o SubSeq(sorted, k + 1, Len(sorted))
RECURSIVE SortByRatingDesc(_)
SortByRatingDesc(docs) ==
  IF docs = <<>> THEN <<>>
  ELSE InsertDesc(SortByRatingDesc(SubSeq(docs, 1, Len(docs) - 1)), docs[Len(docs)])

\* ------------------------------------------------------------------- Init
Init ==
  /\ store  = <<>>
  /\ nextId = 1
  /\ pc     = [r \in Reqs |-> "idle"]
  /\ loc    = [r \in Reqs |-> NoLoc]
  /\ res    = NoRes
  /\ acked  = {}

\* Requests are interchangeable: a new request takes the lowest slot in which
\* no handler is suspended.
Free(r) == pc[r] = "idle" /\ \A q \in 1..(r - 1) : pc[q] # "idle"

\* ------------------------------------------------------------ getProducts
\* page, keyword, await Product.count
getProductsCount(r, pageNumber, keyword) ==
  /\ Free(r)
  /\ LET filter == KeywordFilter(keyword) IN
       loc' = [loc EXCEPT ![r] = [NoLoc EXCEPT !.page = PageOf(pageNumber),
                                               !.keyword = filter,
                                               !.count = Count(filter)]]
  /\ pc'  = [pc EXCEPT ![r] = "find"]
  /\ res' = NoRes
  /\ UNCHANGED <<store, nextId, acked>>

\* await Product.find(...).limit(pageSize).skip(pageSize * (page - 1)); res.json
getProductsFind(r) ==
  /\ pc[r] = "find"
  /\ LET products == Page(Find(loc[r].keyword), loc[r].page) IN
       res' = Json(r, "getProducts", 0, 0, 200,
                   [NoJson EXCEPT !.products = products, !.page = loc[r].page,
                                  !.pages = Ceil(loc[r].count, pageSize)])
  /\ pc'  = [pc EXCEPT ![r] = "idle"]
  /\ loc' = [loc EXCEPT ![r] = NoLoc]
  /\ UNCHANGED <<store, nextId, acked>>

\* --------------------------------------------------------- getProductById
getProductById(r, id) ==
  /\ Free(r)
  /\ LET found == FindById(id) IN
       res' = IF found # <<>>
              THEN Json(r, "getProductById", id, 0, 200, [NoJson EXCEPT !.products = found])
              ELSE Throw(r, "getProductById", id, 0, 404, "Product not found")
  /\ UNCHANGED <<store, nextId, pc, loc, acked>>

\* ---------------------------------------------------------- deleteProduct
\* variant: the else branch answers like the then branch
deleteProductFindNo404(r, id) ==
  /\ Free(r)
  /\ LET found == FindById(id) IN
       IF found # <<>> THEN
         /\ pc'  = [pc EXCEPT ![r] = "remove"]
         /\ loc' = [loc EXCEPT ![r] = [NoLoc EXCEPT !.product = Some([_id |-> found[1]._id])]]
         /\ res' = NoRes
       ELSE
         /\ res' = Json(r, "deleteProduct", id, 0, 200,
                        [NoJson EXCEPT !.message = "Product Removed"])
         /\ UNCHANGED <<pc, loc>>
  /\ UNCHANGED <<store, nextId, acked>>

\* await Product.findById; remove() reads nothing of the document but its
\* _id, which is all of it that is kept here
deleteProductFind(r, id) ==
  /\ Free(r)
  /\ LET found == FindById(id) IN
       IF found # <<>> THEN
         /\ pc'  = [pc EXCEPT ![r] = "remove"]
         /\ loc' = [loc EXCEPT ![r] = [NoLoc EXCEPT !.product = Some([_id |-> found[1]._id])]]
         /\ res' = NoRes
       ELSE
         /\ res' = Throw(r, "deleteProduct", id, 0, 404, "Product not found")
         /\ UNCHANGED <<pc, loc>>
  /\ UNCHANGED <<store, nextId, acked>>

\* await product.remove(); res.json({ message: 'Product Removed' })
deleteProductRemove(r) ==
  /\ pc[r] = "remove"
  /\ store' = Remove(loc[r].product[1])
  /\ res'   = Json(r, "deleteProduct", loc[r].product[1]._id, 0, 200,
                   [NoJson EXCEPT !.message = "Product Removed"])
  /\ pc'    = [pc EXCEPT ![r] = "idle"]
  /\ loc'   = [loc EXCEPT ![r] = NoLoc]
  /\ acked' = {a \in acked : a[1] # loc[r].product[1]._id}
  /\ UNCHANGED nextId

\* ---------------------------------------------------------- createProduct
createProduct(r, u) ==
  /\ Free(r)
  /\ LET product == NewProduct(nextId, ReqUser(u)._id)
     IN  /\ store' = Insert(product)
         /\ res'   = Json(r, "createProduct", product._id, u, 201,
                          [NoJson EXCEPT !.products = <<product>>])
  /\ nextId' = nextId + 1
  /\ UNCHANGED <<pc, loc, acked>>

\* ---------------------------------------------------------- updateProduct
\* await Product.findById; the six assignments; up to the call of save()
updateProductFind(r, id, body) ==
  /\ Free(r)
  /\ LET found == FindById(id) IN
       IF found # <<>> THEN
         /\ pc'  = [pc EXCEPT ![r] = "updateSave"]
         /\ loc' = [loc EXCEPT ![r] = [NoLoc EXCEPT !.body = Some(body),
                                                     !.product = Some(WithFields(found[1], body))]]
         /\ res' = NoRes
       ELSE
         /\ res' = Throw(r, "updateProduct", id, 0, 404, "Product not found")
         /\ UNCHANGED <<pc, loc>>
  /\ UNCHANGED <<store, nextId, acked>>

\* the outcome of save() for a document that is, or is no longer, stored:
\* a removed document is not written, and the driver either reports that or
\* resolves
SaveOutcomes(doc) ==
  IF FindById(doc._id) # <<>> THEN {"saved"} ELSE {"saved", "DocumentNotFoundError"}

\* await product.save(); res.json(updatedProduct)
updateProductSave(r) ==
  /\ pc[r] = "updateSave"
  /\ LET product == loc[r].product[1] IN
       /\ store' = Save(product)
       /\ \E outcome \in SaveOutcomes(product) :
            res' = IF outcome = "saved"
                   THEN Json(r, "updateProduct", product._id, 0, 200,
                             [NoJson EXCEPT !.products = <<product>>])
                   ELSE Throw(r, "updateProduct", product._id, 0, 500, outcome)
  /\ pc'    = [pc EXCEPT ![r] = "idle"]
  /\ loc'   = [loc EXCEPT ![r] = NoLoc]
  /\ UNCHANGED <<nextId, acked>>

\* ---------------------------------------------------- createProductReview
\* variant: the status is set to 400 but the error is not thrown
createProductReviewFindNoThrow(r, id, u, rating, comment) ==
  /\ Free(r)
  /\ LET found == FindById(id) IN
       IF found # <<>> THEN
         /\ pc'  = [pc EXCEPT ![r] = "reviewSave"]
         /\ loc' = [loc EXCEPT ![r] = [NoLoc EXCEPT
                       !.product = Some(WithReview(found[1], ReqUser(u), rating, comment))]]
         /\ res' = NoRes
       ELSE
         /\ res' = Throw(r, "createProductReview", id, u, 404, "Product not found")
         /\ UNCHANGED <<pc, loc>>
  /\ UNCHANGED <<store, nextId, acked>>

\* await Product.findById; the duplicate check; the push and the derived
\* fields; up to the call of product.save()
createProductReviewFind(r, id, u, rating, comment) ==
  /\ Free(r)
  /\ LET found == FindById(id) IN
       IF found # <<>> THEN
         IF AlreadyReviewed(found[1], ReqUser(u)) THEN
           /\ res' = Throw(r, "createProductReview", id, u, 400, "Product already reviewed")
           /\ UNCHANGED <<pc, loc>>
         ELSE
           /\ pc'  = [pc EXCEPT ![r] = "reviewSave"]
           /\ loc' = [loc EXCEPT ![r] = [NoLoc EXCEPT
                         !.product = Some(WithReview(found[1], ReqUser(u), rating, comment))]]
           /\ res' = NoRes
       ELSE
         /\ res' = Throw(r, "createProductReview", id, u, 404, "Product not found")
         /\ UNCHANGED <<pc, loc>>
  /\ UNCHANGED <<store, nextId, acked>>

\* variant: the review is appended to the document as stored at the time of
\* the save, not to the document the handler read
createProductReviewSaveAppend(r) ==
  /\ pc[r] = "reviewSave"
  /\ LET product == loc[r].product[1]
         review  == product.reviews[Len(product.reviews)]
         stored  == FindById(product._id)
         merged  == IF stored = <<>> THEN product
                    ELSE [stored[1] EXCEPT !.reviews    = Append(stored[1].reviews, review),
                                           !.numReviews = product.numReviews,
                                           !.rating     = product.rating]
     IN
       /\ store' = Save(merged)
       /\ res'   = Json(r, "createProductReview", product._id, review.user, 201,
                        [NoJson EXCEPT !.message = "Review added"])
       /\ acked' = IF stored # <<>> THEN acked \cup {<<product._id, review.user>>} ELSE acked
  /\ pc'    = [pc EXCEPT ![r] = "idle"]
  /\ loc'   = [loc EXCEPT ![r] = NoLoc]
  /\ UNCHANGED nextId

\* await product.save(); res.status(201).json({ message: 'Review added' })
createProductReviewSave(r) ==
  /\ pc[r] = "reviewSave"
  /\ LET product == loc[r].product[1]
         user    == product.reviews[Len(product.reviews)].user
     IN
       /\ store' = Save(product)
       /\ \E outcome \in SaveOutcomes(product) :
            IF outcome = "saved"
            THEN /\ res' = Json(r, "createProductReview", product._id, user, 201,
                                [NoJson EXCEPT !.message = "Review added"])
                 /\ acked' = IF FindById(product._id) # <<>>
                             THEN acked \cup {<<product._id, user>>} ELSE acked
            ELSE /\ res' = Throw(r, "createProductReview", product._id, user, 500, outcome)
                 /\ UNCHANGED acked
  /\ pc'    = [pc EXCEPT ![r] = "idle"]
  /\ loc'   = [loc EXCEPT ![r] = NoLoc]
  /\ UNCHANGED nextId

\* --------------------------------------------------------- getTopProducts
\* variant: the sort is missing
getTopProductsUnsorted(r) ==
  /\ Free(r)
  /\ res' = Json(r, "getTopProducts", 0, 0, 200,
                 [NoJson EXCEPT !.products = Limit(Find(<<>>), topLimit)])
  /\ UNCHANGED <<store, nextId, pc, loc, acked>>

getTopProducts(r) ==
  /\ Free(r)
  /\ res' = Json(r, "getTopProducts", 0, 0, 200,
                 [NoJson EXCEPT !.products = Limit(SortByRatingDesc(Find(<<>>)), topLimit)])
  /\ UNCHANGED <<store, nextId, pc, loc, acked>>

\* ------------------------------------------------------- specifications
Ids      == 1..(MaxIds + 1)      \* req.params.id: the ids created and one never created
Admins   == {1}                  \* the accounts that pass the admin middleware
Comments == {"ok"}

\* the rating each account submits, and the two accounts that review in Spec
RatingOf(u) == IF u % 2 = 1 THEN "2" ELSE "5"
Reviewers   == {1, 2}

\* Spec: every handler but the two catalogue queries, one request at a time,
\* over up to MaxIds products
Serial == \A q \in Reqs : pc[q] = "idle"

Next ==
  \/ \E r \in Reqs, u \in Admins : Serial /\ nextId <= MaxIds /\ createProduct(r, u)
  \/ \E r \in Reqs, id \in Ids, body \in Bodies : Serial /\ updateProductFind(r, id, body)
  \/ \E r \in Reqs : updateProductSave(r)
  \/ \E r \in Reqs, id \in Ids : Serial /\ deleteProductFind(r, id)
  \/ \E r \in Reqs : deleteProductRemove(r)
  \/ \E r \in Reqs, id \in Ids, u \in Reviewers, comment \in Comments :
        Serial /\ createProductReviewFind(r, id, u, RatingOf(u), comment)
  \/ \E r \in Reqs : createProductReviewSave(r)
  \/ \E r \in Reqs, id \in Ids : Serial /\ getProductById(r, id)

Spec == Init /\ [][Next]_vars

\* SpecRace: up to MaxReq requests in flight on one product: reviews, the
\* removal of the product, and the catalogue listing
InitRace ==
  /\ store  = <<NewProduct(1, 1)>>
  /\ nextId = 2
  /\ pc     = [r \in Reqs |-> "idle"]
  /\ loc    = [r \in Reqs |-> NoLoc]
  /\ res    = NoRes
  /\ acked  = {}

RaceIds == {1, 2}

NextRace ==
  \/ \E r \in Reqs, id \in RaceIds, u \in Users, comment \in Comments :
        createProductReviewFind(r, id, u, RatingOf(u), comment)
  \/ \E r \in Reqs : createProductReviewSave(r)
  \/ \E r \in Reqs, id \in RaceIds : deleteProductFind(r, id)
  \/ \E r \in Reqs : deleteProductRemove(r)
  \/ \E r \in Reqs : getProductsCount(r, Undefined, Undefined)
  \/ \E r \in Reqs : getProductsFind(r)

SpecRace == InitRace /\ [][NextRace]_vars

\* SpecRead: the two catalogue queries, one request at a time, over catalogues
\* of up to MaxCatalog products that earlier requests created, updated and
\* reviewed
CatalogProduct(i, shift) ==
  LET k       == i + shift
      created == NewProduct(i, 1)
      named   == CASE k % 4 = 0 -> created
                   [] k % 4 = 1 -> WithFields(created, FullBody)
                   [] k % 4 = 2 -> WithFields(created, PartBody)
                   [] k % 4 = 3 -> WithFields(created, NamelessBody)
  IN  CASE k % 5 = 0 -> named
        [] k % 5 = 1 -> WithReview(named, ReqUser(1), "5", "ok")
        [] k % 5 = 2 -> WithReview(WithReview(named, ReqUser(1), "2", "ok"), ReqUser(2), "5", "ok")
        [] k % 5 = 3 -> WithReview(named, ReqUser(2), "2", "ok")
        [] k % 5 = 4 -> WithReview(named, ReqUser(2), "4", "ok")

Shifts == 0..2

InitRead ==
  /\ \E n \in 0..MaxCatalog, shift \in Shifts :
        /\ store  = [i \in 1..n |-> CatalogProduct(i, shift)]
        /\ nextId = n + 1
  /\ pc     = [r \in Reqs |-> "idle"]
  /\ loc    = [r \in Reqs |-> NoLoc]
  /\ res    = NoRes
  /\ acked  = {}

NextRead ==
  \/ \E r \in Reqs, pageNumber \in PageNumbers, keyword \in Keywords :
        Serial /\ getProductsCount(r, pageNumber, keyword)
  \/ \E r \in Reqs : getProductsFind(r)
  \/ \E r \in Reqs : Serial /\ getTopProducts(r)

SpecRead == InitRead /\ [][NextRead]_vars

\* ================================================================ properties
\* the stored product with the given id, for ids that are stored
Stored(id) == FindById(id)[1]
IsStored(id) == FindById(id) # <<>>

\* does the product hold a review of account u
HoldsReviewOf(p, u) == \E i \in 1..Len(p.reviews) : p.reviews[i].user = u

RECURSIVE RatingTotal(_)
RatingTotal(reviews) ==
  IF reviews = <<>> THEN 0 ELSE reviews[1].rating + RatingTotal(Tail(reviews))

\* C1: every stored product has numReviews equal to the length of its reviews
\* list and, when the list is not empty, a rating equal to the sum of the
\* reviews' ratings divided by their number.
C1_ReviewAggregates ==
  \A i \in 1..Len(store) :
     LET p == store[i]
         n == Len(p.reviews)
     IN  /\ p.numReviews = n
         /\ n > 0 => /\ p.rating.den > 0
                     /\ p.rating.num * n = RatingTotal(p.reviews) * p.rating.den

\* a review was just added to a product that now has two reviews with a
\* mean that is not a whole number
C1_Witness ==
  /\ res.op = "createProductReview" /\ res.status = 201
  /\ IsStored(res.id)
  /\ Len(Stored(res.id).reviews) = 2
  /\ Stored(res.id).rating = [num |-> 7, den |-> 2]
  /\ Len(store) = 2

\* C2: a createProductReview request whose findById finds a product that
\* holds a review of the requesting user answers 400 'Product already
\* reviewed', changes nothing in the store and leaves no save pending; no
\* request goes on to save a review for a user the product read already had.
C2_DuplicateRejected ==
  [][\A r \in Reqs :
       /\ (pc[r] = "idle" /\ pc'[r] = "reviewSave") =>
             LET new == loc'[r].product[1]
             IN  ~HoldsReviewOf(Stored(new._id), new.reviews[Len(new.reviews)].user)
       /\ (/\ pc[r] = "idle" /\ res'.req = r /\ res'.op = "createProductReview"
           /\ IsStored(res'.id) /\ HoldsReviewOf(Stored(res'.id), res'.user)) =>
             /\ res'.status = 400
             /\ res'.error = "Product already reviewed"
             /\ store' = store
             /\ pc' = pc
  ]_vars

\* a duplicate review was just rejected and the product still holds the
\* earlier review of that user
C2_Witness ==
  /\ res.op = "createProductReview" /\ res.status = 400
  /\ IsStored(res.id) /\ HoldsReviewOf(Stored(res.id), res.user)
  /\ Stored(res.id).numReviews = Len(Stored(res.id).reviews)

\* C3: no stored product holds two reviews of the same user.
C3_OneReviewPerUser ==
  \A k \in 1..Len(store) :
     \A i, j \in 1..Len(store[k].reviews) :
        i # j => store[k].reviews[i].user # store[k].reviews[j].user

\* two requests of one user overlapped: the review of one is stored while
\* the other, which read the product before, is about to save its own
C3_Witness ==
  \E r \in Reqs :
     /\ pc[r] = "reviewSave"
     /\ LET mine == loc[r].product[1]
        IN  /\ IsStored(mine._id)
            /\ HoldsReviewOf(Stored(mine._id), mine.reviews[Len(mine.reviews)].user)

\* C5: a getProductById, updateProduct, deleteProduct or createProductReview
\* request whose id no stored product has answers 404 'Product not found'
\* and changes neither the store nor any request in flight; no such request
\* goes on to a save or a remove.
C5_NotFound ==
  [][\A r \in Reqs :
       /\ (pc[r] = "idle" /\ pc'[r] \in {"updateSave", "remove", "reviewSave"}) =>
             IsStored(loc'[r].product[1]._id)
       /\ (/\ pc[r] = "idle" /\ res'.req = r
           /\ res'.op \in {"getProductById", "updateProduct", "deleteProduct",
                           "createProductReview"}
           /\ ~IsStored(res'.id)) =>
             /\ res'.status = 404
             /\ res'.error = "Product not found"
             /\ store' = store
             /\ nextId' = nextId
             /\ pc' = pc
  ]_vars

\* an update of a product that was created and has been deleted was just
\* answered 404 while another product is stored
C5_Witness ==
  /\ res.op = "updateProduct" /\ res.status = 404 /\ res.error = "Product not found"
  /\ res.id < nextId
  /\ ~IsStored(res.id)
  /\ Len(store) = 1

\* C8: the save of a review on a stored product is always acknowledged with
\* 201 'Review added' and leaves the product with exactly the reviews the
\* request read plus its own, whatever was saved since it read them.
C8_SaveOverwrites ==
  [][\A r \in Reqs :
       (pc[r] = "reviewSave" /\ pc'[r] = "idle" /\ IsStored(loc[r].product[1]._id)) =>
          LET mine == loc[r].product[1] IN
            /\ res'.status = 201
            /\ res'.json.message = "Review added"
            /\ <<mine._id, mine.reviews[Len(mine.reviews)].user>> \in acked'
            /\ \E i \in 1..Len(store') :
                  store'[i]._id = mine._id /\ store'[i].reviews = mine.reviews
  ]_vars

\* the reviews of two different users on the stored product were both
\* acknowledged, and the product holds only one review
C8_Witness ==
  /\ res.op = "createProductReview" /\ res.status = 201
  /\ IsStored(res.id)
  /\ \E u, v \in Users :
        /\ u # v
        /\ <<res.id, u>> \in acked /\ <<res.id, v>> \in acked
        /\ ~HoldsReviewOf(Stored(res.id), u)
        /\ HoldsReviewOf(Stored(res.id), v)
        /\ Len(Stored(res.id).reviews) = 1

\* C10: the save of an update stores the six fields of the request body,
\* absent ones included, leaves the product's category, id, user, reviews,
\* numReviews and rating as they were, and leaves every other product as it
\* was.
C10_UpdateFrame ==
  [][\A r \in Reqs :
       (pc[r] = "updateSave" /\ pc'[r] = "idle" /\ IsStored(loc[r].product[1]._id)) =>
          LET body == loc[r].body[1]
              id   == loc[r].product[1]._id
          IN
            /\ res'.status = 200
            /\ Len(store') = Len(store)
            /\ \A k \in 1..Len(store) :
                  IF store[k]._id # id THEN store'[k] = store[k]
                  ELSE /\ store'[k].name         = body.name
                       /\ store'[k].price        = body.price
                       /\ store'[k].description  = body.description
                       /\ store'[k].image        = body.image
                       /\ store'[k].brand        = body.brand
                       /\ store'[k].countInStock = body.countInStock
                       /\ store'[k].category     = store[k].category
                       /\ store'[k]._id          = store[k]._id
                       /\ store'[k].user         = store[k].user
                       /\ store'[k].reviews      = store[k].reviews
                       /\ store'[k].numReviews   = store[k].numReviews
                       /\ store'[k].rating       = store[k].rating
  ]_vars

\* a reviewed product was just updated with a body that gives a category and
\* no price: the price is gone, the category is the one it was created with,
\* and a second product is stored
C10_Witness ==
  /\ res.op = "updateProduct" /\ res.status = 200
  /\ IsStored(res.id)
  /\ Len(store) = 2
  /\ LET p == Stored(res.id) IN
       /\ p.name = PartBody.name
       /\ p.price = Undefined
       /\ p.category = Some("Sample category")
       /\ Len(p.reviews) = 2

\* name contains keyword as a case-insensitive substring
Contains(name, keyword) ==
  \E i \in 0..(Len(name) - Len(keyword)) :
     \A j \in 1..Len(keyword) : Fold(name[i + j]) = Fold(keyword[j])

\* C4: the listing returns at most 10 products and pages equal to the number
\* of products matching the filter, divided by 10 and rounded up; with no
\* matching product it returns no product and pages 0.
C4_PagesOfTotal ==
  [][\A r \in Reqs :
       (pc[r] = "find" /\ pc'[r] = "idle") =>
          LET total == Len(Find(loc[r].keyword)) IN
            /\ Len(res'.json.products) <= 10
            /\ res'.json.pages = (total + 9) \div 10
            /\ total = 0 => (res'.json.products = <<>> /\ res'.json.pages = 0)
  ]_vars

\* a.rating <= b.rating
RatingLeq(a, b) == a.rating.num * b.rating.den <= b.rating.num * a.rating.den

\* C6: getTopProducts returns min(3, n) different products of the n stored,
\* in non-increasing order of rating, and no product left out has a rating
\* above that of a returned one.
C6_TopProducts ==
  res.op = "getTopProducts" =>
    LET top == res.json.products
        n   == Len(store)
    IN  /\ Len(top) = IF n < 3 THEN n ELSE 3
        /\ \A i \in 1..Len(top) : \E k \in 1..n : store[k] = top[i]
        /\ \A i, j \in 1..Len(top) : i < j => (top[i]._id # top[j]._id /\ RatingLeq(top[j], top[i]))
        /\ \A k \in 1..n :
              (\A i \in 1..Len(top) : top[i]._id # store[k]._id) =>
                 \A i \in 1..Len(top) : RatingLeq(store[k], top[i])

\* the top three of five products with five different ratings, not in the
\* order they are stored in
C6_Witness ==
  /\ res.op = "getTopProducts"
  /\ Len(store) = 5
  /\ Len(res.json.products) = 3
  /\ res.json.products[1]._id = 1 /\ res.json.products[1].rating = [num |-> 5, den |-> 1]
  /\ res.json.products[2]._id = 4 /\ res.json.products[2].rating = [num |-> 4, den |-> 1]
  /\ res.json.products[3]._id = 2 /\ res.json.products[3].rating = [num |-> 7, den |-> 2]

\* C7: with a non-empty keyword the listing returns only products whose name
\* contains the keyword as a case-insensitive substring; with an empty filter
\* the page is cut from all the stored products.
C7_SubstringFilter ==
  [][\A r \in Reqs :
       (pc[r] = "find" /\ pc'[r] = "idle") =>
          LET filter == loc[r].keyword
              got    == res'.json.products
          IN  /\ filter # <<>> =>
                   \A i \in 1..Len(got) :
                      got[i].name # Undefined /\ Contains(got[i].name[1], filter[1])
              /\ filter = <<>> =>
                   got = SubSeq(store, (loc[r].page - 1) * 10 + 1,
                                IF loc[r].page * 10 < Len(store) THEN loc[r].page * 10
                                ELSE Len(store))
  ]_vars

\* C9: over an unchanged catalogue, page p of the listing is the matches at
\* positions (p-1)*10+1 .. min(p*10, total) of the match order, with pages
\* equal to total/10 rounded up; every match is on exactly one of the pages
\* 1..pages, and a page beyond the last is empty.
C9_Pagination ==
  [][\A r \in Reqs :
       (pc[r] = "find" /\ pc'[r] = "idle") =>
          LET matches == Find(loc[r].keyword)
              total   == Len(matches)
              page    == loc[r].page
              pages   == (total + 9) \div 10
              got     == res'.json.products
          IN  /\ got = SubSeq(matches, (page - 1) * 10 + 1,
                              IF page * 10 < total THEN page * 10 ELSE total)
              /\ res'.json.page = page
              /\ res'.json.pages = pages
              /\ page > pages => got = <<>>
              /\ \A m \in 1..total : \A q \in 1..pages :
                    (\E k \in 1..Len(Page(matches, q)) : Page(matches, q)[k] = matches[m])
                       <=> (q = (m + 9) \div 10)
  ]_vars

\* page 3 of a catalogue of 25 products, all matching: products 21 to 25
C9_Witness ==
  /\ res.op = "getProducts"
  /\ Len(store) = 25
  /\ res.json.page = 3 /\ res.json.pages = 3
  /\ Len(res.json.products) = 5
  /\ res.json.products[1]._id = 21 /\ res.json.products[5]._id = 25

====
